---- MODULE Spec2Model ----
(***************************************************************************)
(* The SixtyFPS language server (tools/lsp/main.rs): the protocol loop,    *)
(* the document cache with its line index, the position resolver           *)
(* (token_descr), document reload with diagnostics publication, and the    *)
(* show-preview command.                                                   *)
(*                                                                         *)
(* Texts are sequences of one-character strings; offsets are 0-based as in *)
(* the source, sequences are 1-based as in TLA+.  An Option<T> is a        *)
(* sequence of length 0 (None) or 1 (Some).                                *)
(***************************************************************************)
EXTENDS Integers, Sequences, FiniteSets, TLC

VARIABLES
    pc,               \* the protocol thread: "running", "stopped" (main_loop
                      \* returned Ok), "failed" (it returned Err), "panicked",
                      \* "exited" (the thread's closure ran to its end)
    ui,               \* the render loop: "running" or "quit"
    newline_offsets,  \* DocumentCache.newline_offsets: Url -> Option<Vec<u32>>
    documents,        \* DocumentCache.documents: path -> Option<Document>
    contents,         \* the preview renderer's content store: path -> Option<text>
    last,             \* the inbound message handled last
    tok,              \* what token_descr returned while handling it
    sent,             \* the messages sent on the outbound channel while handling it
    enq               \* the preview instructions enqueued while handling it

vars == <<pc, ui, newline_offsets, documents, contents, last, tok, sent, enq>>

None == <<>>
Some(x) == <<x>>

(***************************************************************************)
(* Bounds of the model.                                                    *)
(***************************************************************************)
\* longest text drawn from the whole alphabet (specification SpecTok)
MaxLen == 3
\* largest column of a position beyond the longest text
ColSlack == 1
\* most content-change entries in one change notification
MaxChanges == 2
\* most diagnostics in one compile's batch
MaxDiags == 2
\* the largest line and column of a compiler position
MaxPos == 3
\* most ancestors of a token that a code-action request looks at and beyond
MaxDepth == 3

(***************************************************************************)
(* Texts.                                                                  *)
(***************************************************************************)
IdChars == {"A"}
WsChars == {" ", "\n"}
Alphabet == {"A", " ", "\n", ".", "/"}
AllChars == Alphabet \cup {"{", "}"}

\* the scenario text "A { }\n"
ScenarioText == <<"A", " ", "{", " ", "}", "\n">>

SeqsUpTo(S, n) == UNION {[1..k -> S] : k \in 0..n}

Texts == SeqsUpTo(Alphabet, MaxLen) \cup {ScenarioText}

\* texts of the protocol specifications: "old" and "new" differ in their
\* line structure
OldText == <<"A">>
NewText == <<"A", "\n", ".">>
ProtoTexts == {OldText, NewText}

\* a content-change entry of a change notification
Change(text) == [text |-> text]
ProtoChanges == {Change(t) : t \in ProtoTexts}

(***************************************************************************)
(* DocumentCache::newline_offsets_from_content                             *)
(***************************************************************************)
\* SplitNewline as str::lines() would split: no empty piece after a final newline
RECURSIVE SplitLines(_)
SplitLines(content) ==
    IF \E i \in 1..Len(content) : content[i] = "\n"
    THEN LET i == CHOOSE k \in 1..Len(content) :
                      /\ content[k] = "\n"
                      /\ \A m \in 1..(k - 1) : content[m] # "\n"
         IN  <<SubSeq(content, 1, i - 1)>>
                 \o (IF i = Len(content) THEN <<>>
                     ELSE SplitLines(SubSeq(content, i + 1, Len(content))))
    ELSE <<content>>

\* str::split('\n'): the pieces between the newlines, in order; a text with
\* k newlines has k + 1 pieces (the empty text has one empty piece)
RECURSIVE SplitNewline(_)
SplitNewline(content) ==
    IF \E i \in 1..Len(content) : content[i] = "\n"
    THEN LET i == CHOOSE k \in 1..Len(content) :
                      /\ content[k] = "\n"
                      /\ \A m \in 1..(k - 1) : content[m] # "\n"
         IN  <<SubSeq(content, 1, i - 1)>>
                 \o SplitNewline(SubSeq(content, i + 1, Len(content)))
    ELSE <<content>>

\* OffsetsFrom with the newline's own byte forgotten (ln_offs += line.len())
RECURSIVE OffsetsFromNoNewline(_, _)
OffsetsFromNoNewline(lines, ln_offs) ==
    IF lines = <<>> THEN <<>>
    ELSE <<ln_offs>> \o OffsetsFromNoNewline(Tail(lines), ln_offs + Len(Head(lines)))

\* the closure of the map: r = ln_offs; ln_offs += line.len() + 1; r
RECURSIVE OffsetsFrom(_, _)
OffsetsFrom(lines, ln_offs) ==
    IF lines = <<>> THEN <<>>
    ELSE <<ln_offs>> \o OffsetsFrom(Tail(lines), ln_offs + Len(Head(lines)) + 1)

newline_offsets_from_content(content) == OffsetsFrom(SplitNewline(content), 0)

(***************************************************************************)
(* The compiler front end's lexer, as far as the resolver depends on it:   *)
(* the tokens tile the text, each token [kind, start, end) non-empty.      *)
(***************************************************************************)
\* the last index of the run of characters of S that starts at index i
RunEnd(text, i, S) ==
    CHOOSE j \in i..Len(text) :
        /\ \A k \in i..j : text[k] \in S
        /\ (j = Len(text) \/ text[j + 1] \notin S)

PunctKind(c) ==
    CASE c = "." -> "Dot"
      [] c = "{" -> "LBrace"
      [] c = "}" -> "RBrace"
      [] OTHER   -> "Div"

RECURSIVE LexFrom(_, _)
LexFrom(text, i) ==
    IF i > Len(text) THEN <<>>
    ELSE LET c == text[i]
             isComment == c = "/" /\ i < Len(text) /\ text[i + 1] = "/"
             j == IF c \in IdChars THEN RunEnd(text, i, IdChars)
                  ELSE IF c \in WsChars THEN RunEnd(text, i, WsChars)
                  ELSE IF isComment THEN RunEnd(text, i, AllChars \ {"\n"})
                  ELSE i
             kind == IF c \in IdChars THEN "Identifier"
                     ELSE IF c \in WsChars THEN "Whitespace"
                     ELSE IF isComment THEN "Comment"
                     ELSE PunctKind(c)
         IN  <<[kind |-> kind, start |-> i - 1, end |-> j]>> \o LexFrom(text, j + 1)

Lex(text) == LexFrom(text, 1)

(***************************************************************************)
(* URIs and paths.  Url::to_file_path, Url::from_file_path,                *)
(* Path::is_relative and Path::canonicalize are tables over the URIs and   *)
(* paths of the model.                                                     *)
(***************************************************************************)
\* "file:///%61" is another spelling of "file:///a"; "untitled:x" is no file
Uris == {"file:///a", "file:///%61", "file:///l", "untitled:x"}

\* "/l" is a symbolic link to "/a"; "/m" does not exist; "w.60" is relative
AbsPaths == {"/a", "/l", "/b", "/m"}
RelPaths == {"w.60"}
Paths == AbsPaths \cup RelPaths

is_relative(path) == path \in RelPaths

to_file_path(uri) ==
    CASE uri = "file:///a"   -> Some("/a")
      [] uri = "file:///%61" -> Some("/a")
      [] uri = "file:///l"   -> Some("/l")
      [] uri = "file:///b"   -> Some("/b")
      [] uri = "file:///m"   -> Some("/m")
      [] OTHER               -> None

from_file_path(path) ==
    CASE path = "/a" -> Some("file:///a")
      [] path = "/l" -> Some("file:///l")
      [] path = "/b" -> Some("file:///b")
      [] path = "/m" -> Some("file:///m")
      [] OTHER       -> None

canonicalize(path) ==
    CASE path = "/a" -> Some("/a")
      [] path = "/l" -> Some("/a")
      [] path = "/b" -> Some("/b")
      [] OTHER       -> None

\* path.canonicalize().unwrap_or_else(|_| path.to_owned())
\* the path kept as given, never canonicalized
CanonSkipped(path) == path

CanonOrSelf(path) == IF canonicalize(path) = None THEN path ELSE canonicalize(path)[1]

(***************************************************************************)
(* token_descr: the position resolver.                                     *)
(***************************************************************************)
\* RangeContains with the end of the range included
RangeContainsInclusive(start, end, o) == start <= o /\ o <= end

\* TextRange::contains of the range [start, end): the end is excluded
RangeContains(start, end, o) == start <= o /\ o < end

\* SyntaxNode::token_at_offset: the non-empty tokens that touch the offset,
\* both ends included, in text order (none, one, or two at a boundary)
RECURSIVE token_at_offset(_, _)
token_at_offset(tokens, o) ==
    IF tokens = <<>> THEN <<>>
    ELSE LET t == Head(tokens)
         IN  (IF t.start < t.end /\ t.start <= o /\ o <= t.end THEN <<t>> ELSE <<>>)
                 \o token_at_offset(Tail(tokens), o)

\* PickToken without the arms that look at the right token's kind first
PickTokenLeftArmsOnly(l, r) ==
    IF l.kind = "Identifier" THEN l
    ELSE IF l.kind = "Dot" THEN l
    ELSE IF l.kind = "Whitespace" THEN r
    ELSE IF l.kind = "Comment" THEN r
    ELSE l

\* PickToken with the whitespace and comment arms of the left token dropped
PickTokenKeepLeft(l, r) ==
    IF l.kind = "Identifier" THEN l
    ELSE IF r.kind = "Identifier" THEN r
    ELSE IF l.kind = "Dot" THEN l
    ELSE IF r.kind = "Dot" THEN r
    ELSE l

\* the match on (l.kind(), r.kind()), arm by arm
PickToken(l, r) ==
    IF l.kind = "Identifier" THEN l
    ELSE IF r.kind = "Identifier" THEN r
    ELSE IF l.kind = "Dot" THEN l
    ELSE IF r.kind = "Dot" THEN r
    ELSE IF l.kind = "Whitespace" THEN r
    ELSE IF l.kind = "Comment" THEN r
    ELSE IF r.kind = "Whitespace" THEN l
    ELSE IF r.kind = "Comment" THEN l
    ELSE l

\* TypeLoader::get_document
get_document(docs, path) == docs[CanonOrSelf(path)]

\* the token and the raw offset, or None
token_descr(offsets, docs, uri, line, col) ==
    IF offsets[uri] = None \/ line >= Len(offsets[uri][1]) THEN None
    ELSE LET o == offsets[uri][1][line + 1] + col
             path == to_file_path(uri)
         IN  IF path = None THEN None
             ELSE IF get_document(docs, path[1]) = None THEN None
             ELSE LET doc == get_document(docs, path[1])[1]
                      taf == token_at_offset(Lex(doc.text), o)
                  IN  IF ~doc.hasNode THEN None
                      ELSE IF ~RangeContains(0, Len(doc.text), o) THEN None
                      ELSE IF Len(taf) = 0 THEN None
                      ELSE IF Len(taf) = 1 THEN Some([token |-> taf[1], offset |-> o])
                      ELSE Some([token |-> PickToken(taf[1], taf[2]), offset |-> o])

(***************************************************************************)
(* The compiler front end, as far as the server depends on it: a compile   *)
(* yields a document (with or without a tree, with a local registry of     *)
(* types), the files it loaded, and a batch of diagnostics.                *)
(***************************************************************************)
Builtin(name) == [k |-> "Builtin", name |-> name, base |-> <<>>]
Component(name, base) == [k |-> "Component", name |-> name, base |-> <<base>>]
Invalid == [k |-> "Invalid", name |-> "", base |-> <<>>]

\* TypeRegister::lookup: Type::Invalid for an unknown name
lookup(registry, name) == IF name \in DOMAIN registry THEN registry[name] ELSE Invalid

NoRegistry == [n \in {} |-> Invalid]
WindowRegistry ==
    [n \in {"Main", "Box"} |->
        IF n = "Main" THEN Component("Main", Component("Base", Builtin("Window")))
        ELSE Component("Box", Builtin("Rectangle"))]

Diag(src, level, line, column, message) ==
    [src |-> src, level |-> level, line |-> line, column |-> column, message |-> message]

Outcome(hasNode, registry, loaded, diags) ==
    [hasNode |-> hasNode, registry |-> registry, loaded |-> loaded, diags |-> diags]

CleanOutcome == Outcome(TRUE, WindowRegistry, {}, <<>>)

(***************************************************************************)
(* Inbound and outbound messages.                                          *)
(***************************************************************************)
SHOW_PREVIEW_COMMAND == "showPreview"

\* a JSON value: a string, or something that is no string
JStr(s) == [t |-> "string", s |-> s]
JNum == [t |-> "number", s |-> ""]

\* the syntax nodes above a token: the kinds of its parent, its parent's
\* parent, ...; the declared name of the component among them, if any
NodeShape(chain, name) == [chain |-> chain, name |-> name]
NoNode == NodeShape(<<>>, <<>>)

\* an inbound message; every kind of message uses the fields it has
NoMsg ==
    [kind |-> "none", id |-> 0, uri |-> "", line |-> 0, col |-> 0, texts |-> <<>>,
     command |-> "", args |-> <<>>, outcome |-> CleanOutcome, node |-> NoNode]
ReqMsg(kind, id) == [NoMsg EXCEPT !.kind = kind, !.id = id]
PosMsg(kind, id, uri, line, col) ==
    [NoMsg EXCEPT !.kind = kind, !.id = id, !.uri = uri, !.line = line, !.col = col]
CmdMsg(kind, id, command, args) ==
    [NoMsg EXCEPT !.kind = kind, !.id = id, !.command = command, !.args = args]
DocMsg(kind, uri, texts, outcome) ==
    [NoMsg EXCEPT !.kind = kind, !.uri = uri, !.texts = texts, !.outcome = outcome]

\* Response::new_ok(id, result)
Response(id, result) == [type |-> "response", id |-> id, uri |-> "", result |-> result]

\* a null result, and a result that holds a value
Null == <<>>
Value(v) == <<v>>

\* the textDocument/publishDiagnostics notification
Publish(uri, diagnostics) ==
    [type |-> "publishDiagnostics", id |-> 0, uri |-> uri, result |-> diagnostics]

RequestIds == {1, 2}

\* one subtracted without saturating at zero
SubOne(n) == n - 1

(***************************************************************************)
(* Diagnostics translation.                                                *)
(***************************************************************************)
\* u32::saturating_sub(1)
SaturatingSub1(n) == IF n >= 1 THEN n - 1 ELSE 0

to_lsp_diag_level(level) == IF level = "Error" THEN "Error" ELSE "Warning"

to_range(line, column) ==
    LET pos == [line |-> SaturatingSub1(line), character |-> SaturatingSub1(column)]
    IN  [start |-> pos, end |-> pos]

to_lsp_diag(d) ==
    [range |-> to_range(d.line, d.column), severity |-> to_lsp_diag_level(d.level),
     message |-> d.message]

\* DiagsFor with every diagnostic of the batch pushed under every URI
DiagsForAnyPath(diags, uri) == [i \in 1..Len(diags) |-> to_lsp_diag(diags[i])]

\* the diagnostics pushed under one URI, in the batch's order; a diagnostic
\* with a relative source path is skipped
RECURSIVE DiagsFor(_, _)
DiagsFor(diags, uri) ==
    IF diags = <<>> THEN <<>>
    ELSE LET d == Head(diags)
         IN  (IF ~is_relative(d.src[1]) /\ from_file_path(d.src[1]) = Some(uri)
              THEN <<to_lsp_diag(d)>> ELSE <<>>) \o DiagsFor(Tail(diags), uri)

\* LspDiagKeys without the initial empty entries
LspDiagKeysOfDiags(path, outcome) ==
    {from_file_path(outcome.diags[i].src[1])[1] :
        i \in {j \in 1..Len(outcome.diags) : ~is_relative(outcome.diags[j].src[1])}}

\* the keys of lsp_diags: the reloaded path and every loaded file, then every
\* absolute source path of a diagnostic
LspDiagKeys(path, outcome) ==
    {from_file_path(f)[1] : f \in {path} \cup outcome.loaded}
        \cup {from_file_path(outcome.diags[i].src[1])[1] :
                 i \in {j \in 1..Len(outcome.diags) : ~is_relative(outcome.diags[j].src[1])}}

\* where reload_document panics after the compile: Url::from_file_path(..).unwrap()
\* on a relative loaded path, d.source_file().unwrap() on a diagnostic without one
PublishPanics(path, outcome) ==
    \/ \E f \in outcome.loaded : from_file_path(f) = None
    \/ \E i \in 1..Len(outcome.diags) : outcome.diags[i].src = None

\* the orders a HashMap of these keys may be iterated in
Orderings(S) == {f \in [1..Cardinality(S) -> S] : \A i, j \in DOMAIN f : f[i] = f[j] => i = j}

(***************************************************************************)
(* reload_document and show_preview_command, as next-state relations over  *)
(* the cache, the content store and the two channels.                      *)
(***************************************************************************)
\* the path handed to load_file as a document key, without canonicalizing
LoadKeyLiteral(path) == path

\* path_canon: the key reload_document stores the text and the document under
LoadKey(path) == CanonOrSelf(path)

\* preview::set_contents dropped
set_contents_skip(store, path, content) == store

\* preview::set_contents(&path_canon, content)
set_contents(store, path, content) == [store EXCEPT ![path] = Some(content)]

reload_document(content, uri, outcome) ==
    LET path == to_file_path(uri)
    IN  /\ newline_offsets' =
               [newline_offsets EXCEPT ![uri] = Some(newline_offsets_from_content(content))]
        /\ enq' = <<>>
        /\ IF path = None
           THEN /\ pc' = "panicked"
                /\ sent' = <<>>
                /\ UNCHANGED <<documents, contents>>
           ELSE LET path_canon == LoadKey(path[1])
                    doc == [text |-> content, hasNode |-> outcome.hasNode,
                            registry |-> outcome.registry]
                IN  /\ contents' = set_contents(contents, path_canon, content)
                    /\ documents' = [documents EXCEPT ![path_canon] = Some(doc)]
                    /\ IF PublishPanics(path[1], outcome)
                       THEN /\ pc' = "panicked"
                            /\ sent' = <<>>
                       ELSE /\ pc' = pc
                            /\ \E order \in Orderings(LspDiagKeys(path[1], outcome)) :
                                   sent' = [i \in DOMAIN order |->
                                               Publish(order[i], DiagsFor(outcome.diags, order[i]))]

\* the base type one step up, without following the chain further
TerminalOneStep(ty) == IF ty.k = "Component" THEN ty.base[1] ELSE ty

\* the type at the end of the chain of base types
RECURSIVE TerminalType(_)
TerminalType(ty) == IF ty.k = "Component" THEN TerminalType(ty.base[1]) ELSE ty

IsWindow(docs, path, component) ==
    IF component = None THEN FALSE
    ELSE IF get_document(docs, path) = None THEN FALSE
    ELSE LET ty == TerminalType(lookup(get_document(docs, path)[1].registry, component[1]))
         IN  ty.k = "Builtin" /\ ty.name = "Window"

\* whether show_preview_command returns Err("InvalidParameter")
ShowPreviewErr(params) == Len(params) = 0 \/ params[1].t # "string"

\* what show_preview_command hands to preview::load_preview
PreviewInstruction(params, docs) ==
    LET path == params[1].s
        component == IF Len(params) >= 2 /\ params[2].t = "string"
                     THEN Some(params[2].s) ELSE None
    IN  [path |-> CanonOrSelf(path), component |-> component,
         is_window |-> IsWindow(docs, path, component),
         behavior |-> "ShowAfterLoad"]

(***************************************************************************)
(* get_code_actions                                                        *)
(***************************************************************************)
\* only the node itself tried as a component
FindsComponentDirect(chain) == Len(chain) >= 1 /\ chain[1] = "Component"

\* whether one of the three syntax shapes finds a component above the token
FindsComponent(chain) ==
    \/ Len(chain) >= 1 /\ chain[1] = "Component"
    \/ Len(chain) >= 2 /\ chain[1] = "DeclaredIdentifier" /\ chain[2] = "Component"
    \/ /\ Len(chain) >= 3
       /\ chain[1] = "QualifiedName" /\ chain[2] = "Element" /\ chain[3] = "Component"

get_code_actions(node, source_path) ==
    IF ~FindsComponent(node.chain) \/ node.name = None THEN Null
    ELSE Value(<<[title |-> "Show preview", command |-> SHOW_PREVIEW_COMMAND,
                  arguments |-> <<JStr(source_path), JStr(node.name[1])>>]>>)

(***************************************************************************)
(* The protocol loop: one action per kind of inbound message, each the     *)
(* whole of its handler.                                                   *)
(***************************************************************************)
Init ==
    /\ pc = "running"
    /\ ui = "running"
    /\ newline_offsets = [u \in Uris |-> None]
    /\ documents = [p \in Paths |-> None]
    /\ contents = [p \in Paths |-> None]
    /\ last = NoMsg
    /\ tok = None
    /\ sent = <<>>
    /\ enq = <<>>

Cache == <<newline_offsets, documents, contents>>

\* textDocument/definition
GotoDefinition(id, uri, line, col) ==
    /\ pc = "running"
    /\ last' = PosMsg("definition", id, uri, line, col)
    /\ tok' = token_descr(newline_offsets, documents, uri, line, col)
    /\ \E found \in BOOLEAN :
           sent' = <<Response(id, IF tok' # None /\ found THEN Value("location") ELSE Null)>>
    /\ enq' = <<>>
    /\ UNCHANGED <<pc, ui, Cache>>

\* textDocument/completion
Completion(id, uri, line, col) ==
    /\ pc = "running"
    /\ last' = PosMsg("completion", id, uri, line, col)
    /\ tok' = token_descr(newline_offsets, documents, uri, line, col)
    /\ \E found \in BOOLEAN :
           sent' = <<Response(id, IF tok' # None /\ found THEN Value("items") ELSE Null)>>
    /\ enq' = <<>>
    /\ UNCHANGED <<pc, ui, Cache>>

\* textDocument/hover
HoverRequest(id) ==
    /\ pc = "running"
    /\ last' = ReqMsg("hover", id)
    /\ tok' = None
    /\ sent' = <<Response(id, Null)>>
    /\ enq' = <<>>
    /\ UNCHANGED <<pc, ui, Cache>>

\* textDocument/codeAction
CodeActionRequest(id, uri, line, col, node) ==
    /\ pc = "running"
    /\ last' = [PosMsg("codeAction", id, uri, line, col) EXCEPT !.node = node]
    /\ tok' = token_descr(newline_offsets, documents, uri, line, col)
    /\ sent' = <<Response(id, IF tok' = None THEN Null
                              ELSE get_code_actions(node, to_file_path(uri)[1]))>>
    /\ enq' = <<>>
    /\ UNCHANGED <<pc, ui, Cache>>

\* every command name taken for the show-preview command
IsShowPreviewAny(command) == TRUE

\* the arm of the match on the command name
IsShowPreview(command) == command = SHOW_PREVIEW_COMMAND

\* workspace/executeCommand
ExecuteCommand(id, command, args) ==
    /\ pc = "running"
    /\ last' = CmdMsg("executeCommand", id, command, args)
    /\ tok' = None
    /\ IF IsShowPreview(command) /\ ShowPreviewErr(args)
       THEN /\ pc' = "failed"
            /\ sent' = <<>>
            /\ enq' = <<>>
       ELSE /\ pc' = pc
            /\ enq' = IF IsShowPreview(command)
                      THEN <<PreviewInstruction(args, documents)>> ELSE <<>>
            /\ sent' = <<Response(id, Null)>>
    /\ UNCHANGED <<ui, Cache>>

\* a request of a method handle_request does not know: no response
OtherRequest(id) ==
    /\ pc = "running"
    /\ last' = ReqMsg("otherRequest", id)
    /\ tok' = None
    /\ sent' = <<>>
    /\ enq' = <<>>
    /\ UNCHANGED <<pc, ui, Cache>>

\* the shutdown request: Connection::handle_shutdown answers it and waits for
\* the exit notification; anything else in its place is an error
Shutdown(id) ==
    /\ pc = "running"
    /\ last' = ReqMsg("shutdown", id)
    /\ tok' = None
    /\ sent' = <<Response(id, Null)>>
    /\ enq' = <<>>
    /\ \E exit \in BOOLEAN : pc' = IF exit THEN "stopped" ELSE "failed"
    /\ UNCHANGED <<ui, Cache>>

\* Message::Response: dropped
InboundResponse(id) ==
    /\ pc = "running"
    /\ last' = ReqMsg("response", id)
    /\ tok' = None
    /\ sent' = <<>>
    /\ enq' = <<>>
    /\ UNCHANGED <<pc, ui, Cache>>

\* textDocument/didOpen
DidOpen(uri, text, outcome) ==
    /\ pc = "running"
    /\ last' = DocMsg("didOpen", uri, <<Change(text)>>, outcome)
    /\ tok' = None
    /\ reload_document(text, uri, outcome)
    /\ UNCHANGED ui

\* PopLast taking the first entry instead
PopFirst(changes) == changes[1]

\* params.content_changes.pop().unwrap() on a list that is not empty
PopLast(changes) == changes[Len(changes)]

\* textDocument/didChange
DidChange(uri, changes, outcome) ==
    /\ pc = "running"
    /\ last' = DocMsg("didChange", uri, changes, outcome)
    /\ tok' = None
    /\ IF changes = <<>>
       THEN /\ pc' = "panicked"
            /\ sent' = <<>>
            /\ enq' = <<>>
            /\ UNCHANGED Cache
       ELSE reload_document(PopLast(changes).text, uri, outcome)
    /\ UNCHANGED ui

\* a didOpen or didChange whose parameters do not deserialize
MalformedNotification ==
    /\ pc = "running"
    /\ last' = ReqMsg("malformed", 0)
    /\ tok' = None
    /\ pc' = "failed"
    /\ sent' = <<>>
    /\ enq' = <<>>
    /\ UNCHANGED <<ui, Cache>>

\* the sixtyfps/showPreview notification
ShowPreviewNotification(args) ==
    /\ pc = "running"
    /\ last' = CmdMsg("showPreview", 0, "", args)
    /\ tok' = None
    /\ sent' = <<>>
    /\ IF ShowPreviewErr(args)
       THEN /\ pc' = "failed"
            /\ enq' = <<>>
       ELSE /\ pc' = pc
            /\ enq' = <<PreviewInstruction(args, documents)>>
    /\ UNCHANGED <<ui, Cache>>

\* any other notification
OtherNotification ==
    /\ pc = "running"
    /\ last' = ReqMsg("otherNotification", 0)
    /\ tok' = None
    /\ sent' = <<>>
    /\ enq' = <<>>
    /\ UNCHANGED <<pc, ui, Cache>>

\* the inbound channel is closed: the for loop ends, main_loop returns Ok
ChannelClosed ==
    /\ pc = "running"
    /\ pc' = "stopped"
    /\ UNCHANGED <<ui, Cache, last, tok, sent, enq>>

\* the protocol thread's closure after run_lsp_server returned
ThreadExit ==
    /\ pc \in {"stopped", "failed"}
    /\ pc' = "exited"
    /\ ui' = "quit"
    /\ UNCHANGED <<Cache, last, tok, sent, enq>>

(***************************************************************************)
(* Spec: the protocol loop over every kind of inbound message, with two    *)
(* texts and two compile outcomes.                                         *)
(***************************************************************************)
ProtoOutcomes ==
    {CleanOutcome,
     Outcome(FALSE, NoRegistry, {"/b"}, <<Diag(Some("/b"), "Error", 1, 1, "e1")>>)}

ProtoLines == 0..1
ProtoCols == {0}

ProtoNodes ==
    {NodeShape(<<"Component">>, Some("Main")),
     NodeShape(<<"Element", "Component">>, Some("Main"))}

ProtoArgs ==
    {<<>>, <<JNum>>, <<JStr("/l")>>, <<JStr("/m")>>,
     <<JStr("/a"), JStr("Main")>>, <<JStr("/a"), JStr("Box")>>}

Commands == {SHOW_PREVIEW_COMMAND, "other"}

Next ==
    \/ \E id \in RequestIds, uri \in Uris, line \in ProtoLines, col \in ProtoCols :
           GotoDefinition(id, uri, line, col)
    \/ \E id \in RequestIds, uri \in Uris, line \in ProtoLines, col \in ProtoCols :
           Completion(id, uri, line, col)
    \/ \E id \in RequestIds : HoverRequest(id)
    \/ \E id \in RequestIds, uri \in Uris, line \in ProtoLines, col \in ProtoCols,
          node \in ProtoNodes :
           CodeActionRequest(id, uri, line, col, node)
    \/ \E id \in RequestIds, command \in Commands, args \in ProtoArgs :
           ExecuteCommand(id, command, args)
    \/ \E id \in RequestIds : OtherRequest(id)
    \/ \E id \in RequestIds : Shutdown(id)
    \/ \E id \in RequestIds : InboundResponse(id)
    \/ \E uri \in Uris, text \in ProtoTexts, outcome \in ProtoOutcomes :
           DidOpen(uri, text, outcome)
    \/ \E uri \in Uris, changes \in SeqsUpTo(ProtoChanges, MaxChanges),
          outcome \in ProtoOutcomes :
           DidChange(uri, changes, outcome)
    \/ MalformedNotification
    \/ \E args \in ProtoArgs : ShowPreviewNotification(args)
    \/ OtherNotification
    \/ ChannelClosed
    \/ ThreadExit

Spec == Init /\ [][Next]_vars

(***************************************************************************)
(* SpecDiag: reloads over a range of compile outcomes: loaded files with   *)
(* absolute and relative paths; diagnostics of absolute, relative and      *)
(* missing source paths, of files loaded and not loaded.                   *)
(***************************************************************************)
DiagValues ==
    {Diag(Some("/a"), "Error", 1, 1, "e1"), Diag(Some("/b"), "Warning", 2, 3, "w2"),
     Diag(Some("w.60"), "Error", 0, 0, "e3"), Diag(None, "Error", 1, 2, "e4")}

DiagOutcomes ==
    {Outcome(TRUE, WindowRegistry, loaded, diags) :
        loaded \in SUBSET {"/b", "w.60"}, diags \in SeqsUpTo(DiagValues, MaxDiags)}

DiagUris == {"file:///a", "file:///%61"}

NextDiag ==
    \/ \E uri \in DiagUris, outcome \in DiagOutcomes : DidOpen(uri, OldText, outcome)
    \/ \E outcome \in DiagOutcomes :
           DidChange("file:///a", <<Change(OldText), Change(NewText)>>, outcome)

SpecDiag == Init /\ [][NextDiag]_vars

(***************************************************************************)
(* SpecTok: one document, opened once with any text of the alphabet up to  *)
(* MaxLen characters or with the scenario text, then resolved at any       *)
(* position.                                                               *)
(***************************************************************************)
TokUri == "file:///a"
TokLines == 0..(MaxLen + 1)
TokCols == 0..(MaxLen + ColSlack)

NextTok ==
    \/ \E text \in Texts, hasNode \in BOOLEAN :
           /\ newline_offsets[TokUri] = None
           /\ DidOpen(TokUri, text, Outcome(hasNode, NoRegistry, {}, <<>>))
    \/ \E line \in TokLines, col \in TokCols : GotoDefinition(1, TokUri, line, col)

SpecTok == Init /\ [][NextTok]_vars

(***************************************************************************)
(* What the claims speak of.                                               *)
(***************************************************************************)
IsReload == last.kind \in {"didOpen", "didChange"} /\ last.texts # <<>>
ReloadText == last.texts[Len(last.texts)].text
IsResolve == last.kind \in {"definition", "completion", "codeAction"}

\* the number of lines of a text, and the offset at which line i (from 0) starts:
\* 0, or one past the i-th newline
Newlines(text) == {k \in 1..Len(text) : text[k] = "\n"}
CountLines(text) == Cardinality(Newlines(text)) + 1
LineStart(text, i) ==
    IF i = 0 THEN 0
    ELSE CHOOSE k \in Newlines(text) : Cardinality({m \in Newlines(text) : m <= k}) = i

\* the document the resolver consults for the last request, and the raw offset
\* of the request's position
HasLine == newline_offsets[last.uri] # None /\ last.line < Len(newline_offsets[last.uri][1])
RawOffset == newline_offsets[last.uri][1][last.line + 1] + last.col
HasTree ==
    /\ to_file_path(last.uri) # None
    /\ get_document(documents, to_file_path(last.uri)[1]) # None
    /\ get_document(documents, to_file_path(last.uri)[1])[1].hasNode
ResolvedDoc == get_document(documents, to_file_path(last.uri)[1])[1]
TokensOf(text) == {Lex(text)[i] : i \in 1..Len(Lex(text))}

\* two tokens of the resolved document meet at the raw offset
AtBoundary(l, r) ==
    /\ l \in TokensOf(ResolvedDoc.text) /\ r \in TokensOf(ResolvedDoc.text)
    /\ l.end = RawOffset /\ r.start = RawOffset

Trivia(t) == t.kind \in {"Whitespace", "Comment"}
IdOrDot(t) == t.kind \in {"Identifier", "Dot"}

(***************************************************************************)
(* C9: the line-offset table computed on a reload has as many entries as   *)
(* the text has lines (one more than it has newlines), starts with 0, is   *)
(* strictly increasing, and entry i is the offset at which line i starts.  *)
(***************************************************************************)
C9_LineOffsets ==
    IsReload =>
        LET table == newline_offsets[last.uri][1]
        IN  /\ Len(table) = CountLines(ReloadText)
            /\ table[1] = 0
            /\ \A i \in 1..(Len(table) - 1) : table[i] < table[i + 1]
            /\ \A i \in 1..Len(table) : table[i] = LineStart(ReloadText, i - 1)

\* a text of three lines, the last one empty, has been loaded
C9_Witness ==
    /\ IsReload
    /\ ReloadText = <<"A", "\n", "\n">>
    /\ newline_offsets[last.uri] = Some(<<0, 2, 3>>)

(***************************************************************************)
(* C10 as stated: for the text "A { }\n" the line-offset table is exactly  *)
(* [0], and position (0, 2) gives raw offset 2 and resolves to the opening *)
(* brace, the token covering index 2.                                      *)
(***************************************************************************)
ScenarioLoaded == documents["/a"] # None /\ documents["/a"][1].text = ScenarioText

ScenarioResolve ==
    (/\ documents["/a"][1].hasNode
     /\ last.kind = "definition" /\ last.line = 0 /\ last.col = 2)
        => tok = Some([token |-> [kind |-> "LBrace", start |-> 2, end |-> 3], offset |-> 2])

C10_Original ==
    ScenarioLoaded => newline_offsets[TokUri] = Some(<<0>>) /\ ScenarioResolve

(***************************************************************************)
(* C10 as amended: for the text "A { }\n" the line-offset table is exactly *)
(* [0, 6] (the empty line after the final newline has its own entry), and  *)
(* position (0, 2) gives raw offset 2 and resolves to the opening brace.   *)
(***************************************************************************)
C10_Scenario ==
    ScenarioLoaded => newline_offsets[TokUri] = Some(<<0, 6>>) /\ ScenarioResolve

\* the scenario text is loaded and position (0, 2) has been resolved
C10_Witness ==
    /\ ScenarioLoaded
    /\ documents["/a"][1].hasNode
    /\ last.kind = "definition" /\ last.line = 0 /\ last.col = 2
    /\ tok # None

(***************************************************************************)
(* C6 as stated: resolve yields a token if and only if the raw offset      *)
(* line_offsets[line] + col lies within the compiled text range of the     *)
(* document (nothing when the line is out of range, the offset is outside  *)
(* the range, or there is no compiled tree); the token's text range        *)
(* contains the raw offset, and the offset returned is that raw offset.    *)
(***************************************************************************)
ResolveDefinedIff ==
    tok # None <=>
        (HasLine /\ HasTree /\ RangeContains(0, Len(ResolvedDoc.text), RawOffset))

C7_IdentifierThenDot ==
    (IsResolve /\ HasLine /\ HasTree) =>
        \A l, r \in TokensOf(ResolvedDoc.text) :
            AtBoundary(l, r) =>
                /\ l.kind = "Identifier" => tok = Some([token |-> l, offset |-> RawOffset])
                /\ (l.kind # "Identifier" /\ r.kind = "Identifier")
                       => tok = Some([token |-> r, offset |-> RawOffset])
                /\ (l.kind # "Identifier" /\ r.kind # "Identifier" /\ l.kind = "Dot")
                       => tok = Some([token |-> l, offset |-> RawOffset])
                /\ (~IdOrDot(l) /\ r.kind = "Dot")
                       => tok = Some([token |-> r, offset |-> RawOffset])

\* a boundary with the identifier on the right and a dot on the left
\* resolved to the identifier
C7_Witness ==
    /\ IsResolve /\ HasLine /\ HasTree
    /\ \E l, r \in TokensOf(ResolvedDoc.text) :
           /\ AtBoundary(l, r)
           /\ l.kind = "Dot" /\ r.kind = "Identifier"
           /\ tok = Some([token |-> r, offset |-> RawOffset])

(***************************************************************************)
(* C8 as stated: at a boundary where neither token is an identifier or a   *)
(* dot, resolve returns the other side if exactly one side is whitespace   *)
(* or a comment, and the left token in every remaining case, also when     *)
(* both sides are whitespace or comments.                                  *)
(***************************************************************************)
C8_Original ==
    (IsResolve /\ HasLine /\ HasTree) =>
        \A l, r \in TokensOf(ResolvedDoc.text) :
            (AtBoundary(l, r) /\ ~IdOrDot(l) /\ ~IdOrDot(r)) =>
                tok = Some([token |-> IF Trivia(l) /\ ~Trivia(r) THEN r ELSE l,
                            offset |-> RawOffset])

(***************************************************************************)
(* C8 as amended: at a boundary where neither token is an identifier or a  *)
(* dot, resolve returns the right token when the left one is whitespace or *)
(* a comment (also when the right one is whitespace or a comment too), and *)
(* the left token in every remaining case.                                 *)
(***************************************************************************)
C8_Trivia ==
    (IsResolve /\ HasLine /\ HasTree) =>
        \A l, r \in TokensOf(ResolvedDoc.text) :
            (AtBoundary(l, r) /\ ~IdOrDot(l) /\ ~IdOrDot(r)) =>
                tok = Some([token |-> IF Trivia(l) THEN r ELSE l, offset |-> RawOffset])

\* whitespace on the left, a comment on the right: resolved to the comment
C8_Witness ==
    /\ IsResolve /\ HasLine /\ HasTree
    /\ \E l, r \in TokensOf(ResolvedDoc.text) :
           /\ AtBoundary(l, r)
           /\ l.kind = "Whitespace" /\ r.kind = "Comment"
           /\ tok = Some([token |-> r, offset |-> RawOffset])

(***************************************************************************)
(* More of what the claims speak of.                                       *)
(***************************************************************************)
\* the line-offset table of a text, from its newlines
TableOf(text) == [i \in 1..CountLines(text) |-> LineStart(text, i - 1)]

\* the reload of the last message ran to its end
ReloadDone == IsReload /\ pc # "panicked"
ReloadPath == to_file_path(last.uri)[1]

Publications == {i \in DOMAIN sent : sent[i].type = "publishDiagnostics"}
PublishedFor(uri) == {i \in Publications : sent[i].uri = uri}
Responses == {i \in DOMAIN sent : sent[i].type = "response"}

AbsoluteDiags(diags) == {i \in DOMAIN diags : diags[i].src # None /\ diags[i].src[1] \in AbsPaths}
RelativeDiags(diags) == {i \in DOMAIN diags : diags[i].src # None /\ diags[i].src[1] \in RelPaths}

(***************************************************************************)
(* C3: a change notification with one or more content-change entries       *)
(* reloads with the text of the last entry only: the line index stored for *)
(* the URI, the text pushed to the preview content store and the text      *)
(* compiled are those of the last entry's text.                            *)
(***************************************************************************)
C3_LastEntryOnly ==
    (last.kind = "didChange" /\ last.texts # <<>>) =>
        LET text == last.texts[Len(last.texts)].text
        IN  /\ newline_offsets[last.uri] = Some(TableOf(text))
            /\ pc # "panicked" =>
                   /\ contents[CanonOrSelf(ReloadPath)] = Some(text)
                   /\ documents[CanonOrSelf(ReloadPath)] # None
                   /\ documents[CanonOrSelf(ReloadPath)][1].text = text

\* the entries ["old", "new"] have been handled and the document holds "new"
C3_Witness ==
    /\ last.kind = "didChange"
    /\ last.texts = <<Change(OldText), Change(NewText)>>
    /\ pc = "running"
    /\ documents["/a"] # None /\ documents["/a"][1].text = NewText
    /\ contents["/a"] = Some(NewText)
    /\ newline_offsets[last.uri] = Some(<<0, 2>>)

C5_RelativeDropped ==
    IsReload =>
        LET diags == last.outcome.diags
        IN  /\ \A i \in Publications :
                   LET Mine(d) == /\ d.src # None
                                  /\ d.src[1] \in AbsPaths
                                  /\ from_file_path(d.src[1]) = Some(sent[i].uri)
                       mine == SelectSeq(diags, Mine)
                   IN  /\ Len(sent[i].result) = Len(mine)
                       /\ \A k \in DOMAIN mine : sent[i].result[k] = to_lsp_diag(mine[k])
            /\ \A i \in Publications, j \in RelativeDiags(diags) :
                   \A k \in DOMAIN sent[i].result : sent[i].result[k] # to_lsp_diag(diags[j])
            /\ pc # "panicked" =>
                   \A j \in AbsoluteDiags(diags) :
                       \E i \in PublishedFor(from_file_path(diags[j].src[1])[1]) :
                           \E k \in DOMAIN sent[i].result : sent[i].result[k] = to_lsp_diag(diags[j])

\* a batch of a relative-path and an absolute-path diagnostic: one published
C5_Witness ==
    /\ ReloadDone
    /\ last.outcome.diags = <<Diag(Some("w.60"), "Error", 0, 0, "e3"), Diag(Some("/b"), "Warning", 2, 3, "w2")>>
    /\ \E i \in Publications : sent[i].uri = "file:///b" /\ Len(sent[i].result) = 1
    /\ \A i \in Publications : sent[i].uri # "file:///b" => sent[i].result = <<>>

(***************************************************************************)
(* C2 as stated: an execute-command request that names the show-preview    *)
(* command with a first argument that is missing or no string enqueues no  *)
(* preview instruction, is answered with a null success response, and the  *)
(* protocol loop goes on to the next inbound message.                      *)
(***************************************************************************)
BadShowPreview ==
    /\ last.kind = "executeCommand"
    /\ last.command = SHOW_PREVIEW_COMMAND
    /\ last.args = <<>> \/ last.args[1].t # "string"

C2_Claim ==
    BadShowPreview =>
        /\ enq = <<>>
        /\ sent = <<Response(last.id, Null)>>
        /\ pc = "running"

(***************************************************************************)
(* C1 as stated: every goto-definition, completion, hover, code-action and *)
(* execute-command request is answered, before the next inbound message is *)
(* taken, with exactly one response that carries the request's identifier. *)
(***************************************************************************)
C1_Claim ==
    last.kind \in {"definition", "completion", "hover", "codeAction", "executeCommand"} =>
        /\ Cardinality(Responses) = 1
        /\ \A i \in Responses : sent[i].id = last.id

(***************************************************************************)
(* SpecPreview: documents opened under a canonical and a symlinked URI,    *)
(* position requests, and show-preview commands and notifications over     *)
(* every shape of argument list.                                           *)
(***************************************************************************)
PreviewRegistry ==
    [n \in {"Main", "Box", "Bad"} |->
        CASE n = "Main" -> Component("Main", Component("Base", Builtin("Window")))
          [] n = "Box" -> Component("Box", Builtin("Rectangle"))
          [] n = "Bad" -> Component("Bad", Invalid)]

PreviewOutcomes ==
    {Outcome(TRUE, PreviewRegistry, {}, <<>>), Outcome(FALSE, NoRegistry, {}, <<>>)}

PreviewUris == {"file:///a", "file:///l"}
PreviewPaths == {"/a", "/l", "/m"}
PreviewNames == {"Main", "Box", "Bad", "Nope"}
PreviewArgs ==
    {<<>>, <<JNum>>}
        \cup {<<JStr(p)>> : p \in PreviewPaths}
        \cup {<<JStr(p), JNum>> : p \in PreviewPaths}
        \cup {<<JStr(p), JStr(c)>> : p \in PreviewPaths, c \in PreviewNames}

NextPreview ==
    \/ \E uri \in PreviewUris, outcome \in PreviewOutcomes : DidOpen(uri, OldText, outcome)
    \/ \E uri \in PreviewUris, line \in ProtoLines : GotoDefinition(1, uri, line, 0)
    \/ \E command \in Commands, args \in PreviewArgs : ExecuteCommand(1, command, args)
    \/ \E args \in PreviewArgs : ShowPreviewNotification(args)

SpecPreview == Init /\ [][NextPreview]_vars

\* the last message asked for a preview and its first argument was a string
IsShowPreviewMsg ==
    \/ last.kind = "executeCommand" /\ last.command = SHOW_PREVIEW_COMMAND
    \/ last.kind = "showPreview"
GoodShowPreview == IsShowPreviewMsg /\ last.args # <<>> /\ last.args[1].t = "string"
NamesComponent == Len(last.args) >= 2 /\ last.args[2].t = "string"

\* the canonical form of a path, and the document the cache holds for the file
CanonicalForm(path) == IF canonicalize(path) = None THEN path ELSE canonicalize(path)[1]
FileDocument(path) == documents[CanonicalForm(path)]

C12_OneInstruction ==
    GoodShowPreview =>
        /\ Len(enq) = 1
        /\ enq[1].behavior = "ShowAfterLoad"
        /\ canonicalize(last.args[1].s) # None =>
               enq[1].path = canonicalize(last.args[1].s)[1]
        /\ canonicalize(last.args[1].s) = None => enq[1].path = last.args[1].s
        /\ ~NamesComponent => enq[1].component = None /\ ~enq[1].is_window
        /\ NamesComponent => enq[1].component = Some(last.args[2].s)

\* a path that does not canonicalize, with no component, while a document is loaded
C12_Witness ==
    /\ documents["/a"] # None
    /\ last.kind = "executeCommand"
    /\ last.command = SHOW_PREVIEW_COMMAND
    /\ last.args = <<JStr("/m")>>
    /\ enq = <<[path |-> "/m", component |-> None, is_window |-> FALSE,
                behavior |-> "ShowAfterLoad"]>>

\* the type a chain of at most three component types ends at
BaseOf(ty) == IF ty.k = "Component" THEN ty.base[1] ELSE ty
ChainEnd(ty) == BaseOf(BaseOf(BaseOf(ty)))

(***************************************************************************)
(* C13: the instruction of a show-preview is enqueued whatever the         *)
(* component, and its is_window is true exactly when a component is named, *)
(* the file's document is loaded, the name is in the document's symbol     *)
(* table, and its chain of base types ends at the builtin Window.          *)
(***************************************************************************)
C13_IsWindow ==
    GoodShowPreview =>
        /\ Len(enq) = 1
        /\ enq[1].is_window <=>
               /\ NamesComponent
               /\ FileDocument(last.args[1].s) # None
               /\ last.args[2].s \in DOMAIN FileDocument(last.args[1].s)[1].registry
               /\ ChainEnd(FileDocument(last.args[1].s)[1].registry[last.args[2].s]) =
                      Builtin("Window")

\* a component two levels above Window, asked for by a notification
C13_Witness ==
    /\ last.kind = "showPreview"
    /\ last.args = <<JStr("/a"), JStr("Main")>>
    /\ documents["/a"] # None
    /\ documents["/a"][1].registry = PreviewRegistry
    /\ PreviewRegistry["Main"].base[1].k = "Component"
    /\ enq[1].is_window

(***************************************************************************)
(* C14: the step that handles an execute-command request whose command is  *)
(* not the show-preview command leaves the line indexes, the documents and *)
(* the content store as they were, enqueues nothing for the renderer and   *)
(* sends one null success response with the request's id; and every        *)
(* response sent for an execute-command request, recognized or not, is a   *)
(* null success.                                                           *)
(***************************************************************************)
C14_UnknownCommand ==
    /\ [](last.kind = "executeCommand" =>
            \A i \in DOMAIN sent : sent[i] = Response(last.id, Null))
    /\ [](last.kind = "executeCommand" /\ last.command # SHOW_PREVIEW_COMMAND =>
            enq = <<>> /\ sent = <<Response(last.id, Null)>> /\ pc = "running")
    /\ [][last'.kind = "executeCommand" /\ last'.command # SHOW_PREVIEW_COMMAND =>
            Cache' = Cache]_vars

\* an unrecognized command with the arguments of a show-preview, a document loaded
C14_Witness ==
    /\ last.kind = "executeCommand"
    /\ last.command = "other"
    /\ last.args = <<JStr("/a"), JStr("Main")>>
    /\ documents["/a"] # None
    /\ enq = <<>>
    /\ sent = <<Response(1, Null)>>
    /\ pc = "running"

(***************************************************************************)
(* C15 as stated: once the protocol loop has stopped, by shutdown, by the  *)
(* inbound channel closing, by an error returned from a handler or by a    *)
(* panic of its thread, the render loop has been told to quit or the step  *)
(* that tells it is about to be taken.                                     *)
(***************************************************************************)
C15_Claim == pc # "running" => ui = "quit" \/ ENABLED ThreadExit

\* the text of the most recent compile of the file stored under a path
CompiledText(p) == IF documents[p] = None THEN None ELSE Some(documents[p][1].text)

(***************************************************************************)
(* C16: after a reload of a file URI the content store holds the reload's  *)
(* text under the file's canonical path, also when the reload panics later *)
(* while it publishes; the line index is the new text's already when the   *)
(* reload stops before the push.  An entry of the content store changes    *)
(* only in a reload of its file, to that reload's text, so every entry is  *)
(* the text of the most recent reload, which is the text last compiled.    *)
(***************************************************************************)
C16_ContentStore ==
    /\ [](IsReload => newline_offsets[last.uri] = Some(TableOf(ReloadText)))
    /\ [](IsReload /\ to_file_path(last.uri) # None =>
            contents[CanonicalForm(to_file_path(last.uri)[1])] = Some(ReloadText))
    /\ [](\A p \in Paths : contents[p] = CompiledText(p))
    /\ [][\A p \in Paths : contents'[p] # contents[p] =>
            /\ IsReload'
            /\ to_file_path(last'.uri) # None
            /\ CanonicalForm(to_file_path(last'.uri)[1]) = p
            /\ contents'[p] = Some(ReloadText')]_vars

\* the file opened under its canonical URI, then changed through the symlinked one
C16_Witness ==
    /\ last.kind = "didChange"
    /\ last.uri = "file:///l"
    /\ IsReload
    /\ newline_offsets["file:///a"] = Some(TableOf(OldText))
    /\ ReloadText = NewText
    /\ contents["/a"] = Some(NewText)
    /\ contents["/l"] = None

(***************************************************************************)
(* SpecRange: reloads whose compile reports one diagnostic for the         *)
(* reloaded file, at every compiler position up to MaxPos on each axis.    *)
(***************************************************************************)
Positions == 0..MaxPos
RangeOutcomes ==
    {Outcome(TRUE, WindowRegistry, {}, <<Diag(Some("/a"), level, line, column, "m")>>) :
        level \in {"Error", "Warning"}, line \in Positions, column \in Positions}

NextRange ==
    \/ \E uri \in DiagUris, outcome \in RangeOutcomes : DidOpen(uri, OldText, outcome)
    \/ \E outcome \in RangeOutcomes : DidChange("file:///a", <<Change(NewText)>>, outcome)

SpecRange == Init /\ [][NextRange]_vars

\* n - 1, or 0 when that would be negative
ClampDec(n) == IF n - 1 > 0 THEN n - 1 ELSE 0

(***************************************************************************)
(* C17: every published diagnostic comes from a compiler diagnostic at     *)
(* (line, column) and sits at (max(line - 1, 0), max(column - 1, 0)); no   *)
(* coordinate is negative and the range ends where it starts.              *)
(***************************************************************************)
C17_Position ==
    ReloadDone =>
        /\ Publications # {}
        /\ \A i \in Publications :
               /\ Len(sent[i].result) = Len(last.outcome.diags)
               /\ \A k \in DOMAIN sent[i].result :
                      /\ sent[i].result[k].range.start =
                             [line |-> ClampDec(last.outcome.diags[k].line),
                              character |-> ClampDec(last.outcome.diags[k].column)]
                      /\ sent[i].result[k].range.end = sent[i].result[k].range.start
                      /\ sent[i].result[k].range.start.line >= 0
                      /\ sent[i].result[k].range.start.character >= 0

\* a compiler position on line 0, which has no line before it
C17_Witness ==
    /\ ReloadDone
    /\ last.outcome.diags[1].line = 0
    /\ last.outcome.diags[1].column = MaxPos
    /\ sent[1].result[1].range =
           [start |-> [line |-> 0, character |-> MaxPos - 1],
            end |-> [line |-> 0, character |-> MaxPos - 1]]

(***************************************************************************)
(* SpecAction: code-action requests on a document, opened or not, with or  *)
(* without a tree, the token's ancestors being every chain of at most      *)
(* MaxDepth node kinds, with and without a declared component name.        *)
(***************************************************************************)
NodeKinds == {"Component", "DeclaredIdentifier", "QualifiedName", "Element"}
ActionNodes ==
    {NodeShape(chain, name) :
        chain \in SeqsUpTo(NodeKinds, MaxDepth), name \in {None, Some("Main")}}
ActionUri == "file:///a"

NextAction ==
    \/ \E outcome \in PreviewOutcomes : DidOpen(ActionUri, OldText, outcome)
    \/ \E node \in ActionNodes : CodeActionRequest(1, ActionUri, 0, 0, node)

SpecAction == Init /\ [][NextAction]_vars

\* the three places, counted from the token's parent, where a component may be
ComponentAbove(chain) ==
    \E n \in 1..3 :
        /\ Len(chain) >= n
        /\ SubSeq(chain, 1, n) \in
               {<<"Component">>, <<"DeclaredIdentifier", "Component">>,
                <<"QualifiedName", "Element", "Component">>}

(***************************************************************************)
(* C18: a code-action request gets one success response.  When the         *)
(* position resolves to a token whose parent is a component, or a declared *)
(* identifier under a component, or a qualified name under an element      *)
(* under a component, and the component has a name, the result is a list   *)
(* of exactly one show-preview command with the arguments (path of the     *)
(* source file, component name); in every other case the result is null.   *)
(***************************************************************************)
C18_OneAction ==
    last.kind = "codeAction" =>
        /\ Len(sent) = 1
        /\ sent[1].type = "response" /\ sent[1].id = last.id
        /\ pc = "running"
        /\ IF tok # None /\ ComponentAbove(last.node.chain) /\ last.node.name # None
           THEN /\ sent[1].result # Null
                /\ Len(sent[1].result[1]) = 1
                /\ sent[1].result[1][1].command = "showPreview"
                /\ sent[1].result[1][1].arguments =
                       <<JStr(to_file_path(last.uri)[1]), JStr(last.node.name[1])>>
           ELSE sent[1].result = Null

\* a token in a qualified name of the root element of a named component
C18_Witness ==
    /\ last.kind = "codeAction"
    /\ last.node = NodeShape(<<"QualifiedName", "Element", "Component">>, Some("Main"))
    /\ tok # None
    /\ sent[1].result # Null
    /\ sent[1].result[1][1].arguments = <<JStr("/a"), JStr("Main")>>

(***************************************************************************)
(* C19 as stated: between two messages, every URI that has a line index    *)
(* and a compiled tree the resolver would consult has the line index of    *)
(* that tree's text, also when another URI denotes the same file.          *)
(***************************************************************************)
C19_Claim ==
    pc = "running" =>
        \A u \in Uris :
            /\ newline_offsets[u] # None
            /\ to_file_path(u) # None
            /\ get_document(documents, to_file_path(u)[1]) # None
            /\ get_document(documents, to_file_path(u)[1])[1].hasNode
            => newline_offsets[u] =
                   Some(TableOf(get_document(documents, to_file_path(u)[1])[1].text))

(***************************************************************************)
(* C20 as stated: after an open or change notification has been handled,   *)
(* whatever its URI, its list of content changes and the compile's         *)
(* outcome, the protocol loop has neither panicked nor returned an error:  *)
(* it is still running, or was ended afterwards by the channel closing.    *)
(***************************************************************************)
C20_Claim == last.kind \in {"didOpen", "didChange"} => pc \notin {"panicked", "failed"}

====
